---- MODULE Spec2Model ----
(***************************************************************************)
(* Model of api/metrics.py: the POST /api/latency endpoint that aggregates *)
(* per-region latency metrics over the process-wide table ALL_RECORDS.     *)
(*                                                                         *)
(* Floats of the response are represented exactly, in hundredths: the      *)
(* value 150.0 is 15000, 33.33 is 3333.  round(x, 2) is round-half-even on *)
(* the exact quotient, which is what Python computes for every quotient    *)
(* whose denominator is below 40 (checked against CPython).                *)
(***************************************************************************)
EXTENDS Integers, Sequences, FiniteSets

VARIABLES ALL_RECORDS, load_failed, request, response, first

vars == <<ALL_RECORDS, load_failed, request, response, first>>

(* ------------------------------ bounds --------------------------------- *)

\* longest table enumerated record by record
MaxRecords == 2
\* longest table made of two runs of equal records
MaxRun == 21
\* longest regions list of a request
MaxRegions == 2

(* ------------------------------ inputs --------------------------------- *)

\* record.get("latency_ms") of a record without that key
NoneLatency == -1

TableRegions == {"emea", "amer"}
QueryRegions == {"emea", "EMEA"}
LatencyValues == {NoneLatency, 150, 200}
UptimeValues == {99, 100}
Thresholds == {150, 200}

Records == [region : TableRegions, latency_ms : LatencyValues, uptime_pct : UptimeValues]

RECURSIVE SeqsUpTo(_, _)
SeqsUpTo(S, n) ==
    IF n = 0 THEN {<<>>}
    ELSE LET shorter == SeqsUpTo(S, n - 1)
         IN  shorter \cup {Append(s, x) : s \in {t \in shorter : Len(t) = n - 1}, x \in S}

SmallTables == SeqsUpTo(Records, MaxRecords)

Run(n, rec) == [i \in 1..n |-> rec]

SlowRecord == [region |-> "emea", latency_ms |-> 200, uptime_pct |-> 99]
FastRecord == [region |-> "emea", latency_ms |-> 150, uptime_pct |-> 100]

\* tables of a run of one record followed by a run of the other, both orders
RunLengths == {p \in (0..MaxRun) \X (0..MaxRun) : p[1] + p[2] <= MaxRun}

RunTables ==
    {Run(p[1], SlowRecord) \o Run(p[2], FastRecord) : p \in RunLengths}
    \cup
    {Run(p[1], FastRecord) \o Run(p[2], SlowRecord) : p \in RunLengths}

\* the run tables of at most MaxRecords records
ShortRunTables == {t \in RunTables : Len(t) <= MaxRecords}

MOCK_TELEMETRY_DATA ==
    << [region |-> "emea", latency_ms |-> 150],
       [region |-> "emea", latency_ms |-> 160],
       [region |-> "emea", latency_ms |-> 200],
       [region |-> "amer", latency_ms |-> 100],
       [region |-> "amer", latency_ms |-> 110],
       [region |-> "amer", latency_ms |-> 190],
       [region |-> "apac", latency_ms |-> 50],
       [region |-> "apac", latency_ms |-> 60] >>

\* a JSON body: either key may be missing
Bodies ==
    [has_regions : {TRUE}, regions : SeqsUpTo(QueryRegions, MaxRegions),
     has_threshold_ms : {TRUE}, threshold_ms : Thresholds]
    \cup
    [has_regions : {TRUE}, regions : SeqsUpTo(QueryRegions, MaxRegions),
     has_threshold_ms : {FALSE}, threshold_ms : {0}]
    \cup
    [has_regions : {FALSE}, regions : {<<>>},
     has_threshold_ms : BOOLEAN, threshold_ms : {150}]

NoBody == [has_regions |-> FALSE, regions |-> <<>>, has_threshold_ms |-> FALSE, threshold_ms |-> 0]
NoResponse == [status |-> 0, body |-> <<>>]

(* ------------------------------ helpers -------------------------------- *)

Max(a, b) == IF a >= b THEN a ELSE b
Min(a, b) == IF a <= b THEN a ELSE b

\* round(num / den, 2), in hundredths
Round2(num, den) ==
    LET q == (100 * num) \div den
        r == (100 * num) % den
    IN  IF 2 * r < den THEN q
        ELSE IF 2 * r > den THEN q + 1
        ELSE IF q % 2 = 0 THEN q ELSE q + 1

RECURSIVE SumSeq(_)
SumSeq(s) == IF s = <<>> THEN 0 ELSE s[1] + SumSeq(Tail(s))

RECURSIVE Insert(_, _)
Insert(x, s) ==
    IF s = <<>> THEN <<x>>
    ELSE IF x < s[1] THEN <<x>> \o s
    ELSE <<s[1]>> \o Insert(x, Tail(s))

\* sorted(latencies)
RECURSIVE sorted(_)
sorted(s) == IF s = <<>> THEN <<>> ELSE Insert(s[Len(s)], sorted(SubSeq(s, 1, Len(s) - 1)))

\* Python list indexing lst[i] for i < len(lst): a negative index counts from the end
PyIndex(lst, i) == IF i < 0 THEN lst[Len(lst) + i + 1] ELSE lst[i + 1]

(* --------------------------- calculate_p95 ----------------------------- *)

\* int(N * 0.95)
IntN95(N) == (19 * N) \div 20

\* variant: the index floor(0.95 * (N - 1))
p95_index_lower(N) == Max(0, (19 * (N - 1)) \div 20)

\* variant: the lower clamp max(0, ...) left out
p95_index_unclamped(N) == IntN95(N) - 1

p95_index(N) == Max(0, IntN95(N) - 1)

final_index(N) == Min(N - 1, p95_index(N))

calculate_p95(latencies) ==
    IF latencies = <<>> THEN 0
    ELSE 100 * PyIndex(sorted(latencies), final_index(Len(latencies)))

(* ------------------------- get_latency_metrics ------------------------- *)
\* variant: one key per element of the list, duplicates kept
region_keys_list(regions) == regions

\* the keys of the dict comprehension over payload.regions, in insertion order
RECURSIVE region_keys(_)
region_keys(regions) ==
    IF regions = <<>> THEN <<>>
    ELSE LET before == region_keys(SubSeq(regions, 1, Len(regions) - 1))
             r == regions[Len(regions)]
         IN  IF \E i \in DOMAIN before : before[i] = r THEN before ELSE Append(before, r)

region_data_init(regions) ==
    [r \in {regions[i] : i \in DOMAIN regions} |->
        [latencies |-> <<>>, total_records |-> 0, breaches |-> 0]]
\* variant: a latency equal to the threshold counted as a breach
process_record_ge(data, record, threshold_ms) ==
    LET region == record.region
        latency == record.latency_ms
    IN  IF region \in DOMAIN data /\ latency # NoneLatency
        THEN [data EXCEPT ![region] =
                [latencies |-> Append(@.latencies, latency),
                 total_records |-> @.total_records + 1,
                 breaches |-> IF latency >= threshold_ms THEN @.breaches + 1 ELSE @.breaches]]
        ELSE data

\* one iteration of the loop over ALL_RECORDS
process_record(data, record, threshold_ms) ==
    LET region == record.region
        latency == record.latency_ms
    IN  IF region \in DOMAIN data /\ latency # NoneLatency
        THEN [data EXCEPT ![region] =
                [latencies |-> Append(@.latencies, latency),
                 total_records |-> @.total_records + 1,
                 breaches |-> IF latency > threshold_ms THEN @.breaches + 1 ELSE @.breaches]]
        ELSE data

RECURSIVE process_records(_, _, _)
process_records(data, records, threshold_ms) ==
    IF records = <<>> THEN data
    ELSE process_record(process_records(data, SubSeq(records, 1, Len(records) - 1), threshold_ms),
                        records[Len(records)], threshold_ms)
\* variant: a region without records reported with zero uptime
empty_region_metrics_zero(region_name) ==
    [region |-> region_name, avg_latency |-> 0, p95_latency |-> 0,
     avg_uptime |-> 0, breaches |-> 0]

empty_region_metrics(region_name) ==
    [region |-> region_name, avg_latency |-> 0, p95_latency |-> 0,
     avg_uptime |-> 10000, breaches |-> 0]
\* variant: the mean taken with integer division
avg_latency_floordiv(latencies) ==
    IF latencies = <<>> THEN 0 ELSE 100 * (SumSeq(latencies) \div Len(latencies))

\* round(statistics.mean(latencies), 2)
avg_latency_of(latencies) ==
    IF latencies = <<>> THEN 0 ELSE Round2(SumSeq(latencies), Len(latencies))
\* variant: the share of breaching records instead of its complement
avg_uptime_breached(total_records, breaches) ==
    Round2(100 * breaches, total_records)

\* round((under_threshold / total_records) * 100, 2)
avg_uptime_of(total_records, breaches) ==
    Round2(100 * (total_records - breaches), total_records)

region_metrics(region_name, data) ==
    IF data.total_records = 0 THEN empty_region_metrics(region_name)
    ELSE [region |-> region_name,
          avg_latency |-> avg_latency_of(data.latencies),
          p95_latency |-> calculate_p95(data.latencies),
          avg_uptime |-> avg_uptime_of(data.total_records, data.breaches),
          breaches |-> data.breaches]

results_of(records, payload) ==
    LET keys == region_keys(payload.regions)
        data == process_records(region_data_init(payload.regions), records, payload.threshold_ms)
    IN  [i \in DOMAIN keys |-> region_metrics(keys[i], data[keys[i]])]
\* variant: both fields optional, with defaults [] and 180
InputPayload_defaults(body) ==
    [ok |-> TRUE,
     regions |-> IF body.has_regions THEN body.regions ELSE <<>>,
     threshold_ms |-> IF body.has_threshold_ms THEN body.threshold_ms ELSE 180]

\* validation of the body against InputPayload: both fields are required
InputPayload(body) ==
    IF body.has_regions /\ body.has_threshold_ms
    THEN [ok |-> TRUE, regions |-> body.regions, threshold_ms |-> body.threshold_ms]
    ELSE [ok |-> FALSE, regions |-> <<>>, threshold_ms |-> 0]

\* history variable: the first request served and its response
Remember(body, resp) ==
    IF first.mode = "empty"
    THEN [mode |-> "set", request |-> body, response |-> resp, other |-> FALSE]
    ELSE IF first.mode = "set" /\ body # first.request
    THEN [first EXCEPT !.other = TRUE]
    ELSE first

(* ------------------------------- actions ------------------------------- *)

\* module import: the try block binds ALL_RECORDS, the except branch leaves it empty
LoadedTables == SmallTables \cup RunTables \cup {MOCK_TELEMETRY_DATA}

InitLoad(tables) ==
    \/ /\ load_failed = FALSE
       /\ ALL_RECORDS \in tables
    \/ /\ load_failed = TRUE
       /\ ALL_RECORDS = <<>>

Init ==
    /\ InitLoad(LoadedTables)
    /\ request = NoBody
    /\ response = NoResponse
    /\ first = [mode |-> "off", request |-> NoBody, response |-> NoResponse, other |-> FALSE]

InitIdem ==
    /\ InitLoad(ShortRunTables \cup {MOCK_TELEMETRY_DATA})
    /\ request = NoBody
    /\ response = NoResponse
    /\ first = [mode |-> "empty", request |-> NoBody, response |-> NoResponse, other |-> FALSE]
\* variant: the loop consumes the table it iterates over
get_latency_metrics_consuming(body) ==
    LET payload == InputPayload(body)
        resp == [status |-> 200, body |-> results_of(ALL_RECORDS, payload)]
    IN  /\ payload.ok
        /\ request' = body
        /\ response' = resp
        /\ first' = Remember(body, resp)
        /\ ALL_RECORDS' = IF ALL_RECORDS = <<>> THEN <<>> ELSE Tail(ALL_RECORDS)
        /\ UNCHANGED load_failed

\* POST /api/latency with a body that validates
get_latency_metrics(body) ==
    LET payload == InputPayload(body)
        resp == [status |-> 200, body |-> results_of(ALL_RECORDS, payload)]
    IN  /\ payload.ok
        /\ request' = body
        /\ response' = resp
        /\ first' = Remember(body, resp)
        /\ UNCHANGED <<ALL_RECORDS, load_failed>>

\* POST /api/latency with a body that fails validation: the handler is not called
RequestValidationError(body) ==
    LET payload == InputPayload(body)
        resp == [status |-> 422, body |-> <<>>]
    IN  /\ ~payload.ok
        /\ request' = body
        /\ response' = resp
        /\ first' = Remember(body, resp)
        /\ UNCHANGED <<ALL_RECORDS, load_failed>>

Next ==
    \/ \E body \in Bodies : get_latency_metrics(body)
    \/ \E body \in Bodies : RequestValidationError(body)

Spec == Init /\ [][Next]_vars

SpecIdem == InitIdem /\ [][Next]_vars

(* ------------------------------ properties ----------------------------- *)

Served == response.status = 200

Entries == {response.body[i] : i \in DOMAIN response.body}

HasLatency(rec) == rec.latency_ms # NoneLatency

\* the records of the table that count for region r: same region, a latency present
Matching(r) ==
    {j \in DOMAIN ALL_RECORDS : ALL_RECORDS[j].region = r /\ HasLatency(ALL_RECORDS[j])}

Breaching(r, threshold) ==
    {j \in DOMAIN ALL_RECORDS :
        /\ ALL_RECORDS[j].region = r
        /\ HasLatency(ALL_RECORDS[j])
        /\ ALL_RECORDS[j].latency_ms > threshold}

LatencyAt(j) == ALL_RECORDS[j].latency_ms

RECURSIVE SumLatency(_)
SumLatency(S) ==
    IF S = {} THEN 0
    ELSE LET j == CHOOSE k \in S : TRUE IN LatencyAt(j) + SumLatency(S \ {j})

RECURSIVE SumUptime(_)
SumUptime(S) ==
    IF S = {} THEN 0
    ELSE LET j == CHOOSE k \in S : TRUE IN ALL_RECORDS[j].uptime_pct + SumUptime(S \ {j})

Abs(x) == IF x < 0 THEN 0 - x ELSE x

\* c (in hundredths) is num / den rounded to 2 decimal places
IsRounded2(c, num, den) == 2 * Abs(c * den - 100 * num) <= den

\* v is the element at zero-based index k of the latencies of S sorted ascending
IsKthSmallest(v, k, S) ==
    /\ Cardinality({j \in S : LatencyAt(j) < v}) <= k
    /\ k < Cardinality({j \in S : LatencyAt(j) <= v})

P95IsAtIndex(e, k) ==
    \E j \in Matching(e.region) :
        /\ e.p95_latency = 100 * LatencyAt(j)
        /\ IsKthSmallest(LatencyAt(j), k, Matching(e.region))

\* C1 as stated: the entry of a region without matching records has null
\* avg_latency, p95_latency and avg_uptime (no number at all) and breaches 0.
C1_NullEntry ==
    Served =>
        \A e \in Entries :
            Matching(e.region) = {} =>
                /\ e.avg_latency \notin Nat
                /\ e.p95_latency \notin Nat
                /\ e.avg_uptime \notin Nat
                /\ e.breaches = 0

\* C1 amended: the entry of a region without matching records is exactly
\* avg_latency 0.0, p95_latency 0.0, avg_uptime 100.0, breaches 0.
C1_ZeroEntry ==
    Served =>
        \A e \in Entries :
            Matching(e.region) = {} =>
                e = [region |-> e.region, avg_latency |-> 0, p95_latency |-> 0,
                     avg_uptime |-> 10000, breaches |-> 0]

C1_Witness ==
    /\ Served
    /\ ALL_RECORDS # <<>>
    /\ \E e \in Entries : e.region = "EMEA" /\ Matching(e.region) = {}
    /\ \E e \in Entries : Matching(e.region) # {}

\* C2: after a failed load every well-formed request gets the unavailable-data
\* error (a server-error status), never a successful result.
C2_UnavailableAfterLoadFailure ==
    (load_failed /\ request.has_regions /\ request.has_threshold_ms) =>
        response.status >= 500

\* C3: breaches of every requested region is the number of records of that
\* region whose latency is strictly greater than the threshold.
C3_BreachesCount ==
    Served =>
        /\ \A i \in DOMAIN request.regions : \E e \in Entries : e.region = request.regions[i]
        /\ \A e \in Entries :
              e.breaches = Cardinality(Breaching(e.region, request.threshold_ms))

C3_Witness ==
    /\ Served
    /\ \E e \in Entries :
          /\ e.breaches >= 1
          /\ \E j \in Matching(e.region) : LatencyAt(j) = request.threshold_ms
          /\ \E j \in DOMAIN ALL_RECORDS :
                ALL_RECORDS[j].region # e.region /\ LatencyAt(j) > request.threshold_ms

C5_MeanOfUptimeField ==
    Served =>
        \A e \in Entries :
            LET S == Matching(e.region)
            IN  (S # {} /\ \A j \in S : "uptime_pct" \in DOMAIN ALL_RECORDS[j]) =>
                    IsRounded2(e.avg_uptime, SumUptime(S), Cardinality(S))

\* C5 amended: avg_uptime is the percentage of the region's matching records
\* whose latency is not greater than the threshold, rounded to 2 decimal places.
C5_ShareUnderThreshold ==
    Served =>
        \A e \in Entries :
            LET S == Matching(e.region)
                under == S \ Breaching(e.region, request.threshold_ms)
            IN  S # {} => IsRounded2(e.avg_uptime, 100 * Cardinality(under), Cardinality(S))

C5_Witness ==
    /\ Served
    /\ \E e \in Entries : e.avg_uptime = 6667 /\ Cardinality(Matching(e.region)) = 3

\* C6 as stated: the i-th entry of the output is for the i-th requested region,
\* also when a region is requested more than once.
C6_EntryPerListElement ==
    Served =>
        /\ Len(response.body) = Len(request.regions)
        /\ \A i \in DOMAIN response.body : response.body[i].region = request.regions[i]

FirstIndex(r) == CHOOSE i \in DOMAIN request.regions :
    /\ request.regions[i] = r
    /\ \A k \in 1..(i - 1) : request.regions[k] # r

\* C6 amended: the output has exactly one entry for each distinct requested
\* region, in the order of the regions' first occurrence in the input list,
\* and no entry for a region that was not requested.
C6_EntryPerDistinctRegion ==
    Served =>
        /\ {e.region : e \in Entries} = {request.regions[i] : i \in DOMAIN request.regions}
        /\ \A i, k \in DOMAIN response.body :
              i < k =>
                /\ response.body[i].region # response.body[k].region
                /\ FirstIndex(response.body[i].region) < FirstIndex(response.body[k].region)

C6_Witness ==
    /\ Served
    /\ Len(request.regions) = 2
    /\ request.regions[1] = request.regions[2]
    /\ Len(response.body) = 1

\* C7 as stated: a request without threshold_ms is aggregated with threshold
\* 180, and a request without regions succeeds with an empty result.
C7_OmissionsDefaulted ==
    /\ (response.status # 0 /\ request.has_regions /\ ~request.has_threshold_ms) =>
          /\ Served
          /\ \A e \in Entries : e.breaches = Cardinality(Breaching(e.region, 180))
    /\ (response.status # 0 /\ ~request.has_regions) =>
          /\ Served
          /\ response.body = <<>>

\* C7 amended: a request that omits threshold_ms or regions is rejected as
\* malformed input and nothing is aggregated; a request that gives both with
\* an empty regions list succeeds with an empty result.
C7_OmissionsRejected ==
    /\ (response.status # 0 /\ (~request.has_regions \/ ~request.has_threshold_ms)) =>
          response = [status |-> 422, body |-> <<>>]
    /\ (request.has_regions /\ request.has_threshold_ms /\ request.regions = <<>>) =>
          response = [status |-> 200, body |-> <<>>]

C7_Witness ==
    /\ response.status = 422
    /\ request.has_regions
    /\ request.regions # <<>>
    /\ ~request.has_threshold_ms
    /\ Matching(request.regions[1]) # {}

\* C8: no request modifies ALL_RECORDS, and a request with the same regions
\* and threshold as the first request served gets the same response as it
\* got, whatever was requested in between.
C8_TableFrozenAndIdempotent ==
    [][ /\ ALL_RECORDS' = ALL_RECORDS
        /\ (first'.mode = "set" /\ request' = first'.request) => response' = first'.response
      ]_vars

C8_Witness ==
    /\ first.mode = "set"
    /\ first.other
    /\ request = first.request
    /\ Served
    /\ \E e \in Entries : Matching(e.region) # {}

\* C9: avg_latency is the mean of the matching records' latencies rounded to
\* 2 decimal places and lies between the least and the greatest of them.
C9_AvgLatency ==
    Served =>
        \A e \in Entries :
            LET S == Matching(e.region)
            IN  S # {} =>
                  /\ IsRounded2(e.avg_latency, SumLatency(S), Cardinality(S))
                  /\ \E j \in S : 100 * LatencyAt(j) <= e.avg_latency
                  /\ \E j \in S : e.avg_latency <= 100 * LatencyAt(j)

C9_Witness ==
    /\ Served
    /\ \E e \in Entries :
          /\ Cardinality(Matching(e.region)) = 3
          /\ e.avg_latency = 16667

\* C10: for every n >= 1 the index calculate_p95 uses lies in 0..n-1, and
\* p95_latency is one of the region's observed latencies.
C10_P95Observed ==
    Served =>
        \A e \in Entries :
            LET n == Cardinality(Matching(e.region))
            IN  n >= 1 =>
                  /\ final_index(n) \in 0..(n - 1)
                  /\ \E j \in Matching(e.region) : e.p95_latency = 100 * LatencyAt(j)

C10_Witness ==
    /\ Served
    /\ \E e \in Entries :
          /\ Cardinality(Matching(e.region)) = 1
          /\ \E j \in Matching(e.region) : e.p95_latency = 100 * LatencyAt(j)

====
